---- MODULE Spec2Model ----
(***************************************************************************)
(* A model of dumpy/types.py: the composite codec engine (DumpyMeta's      *)
(* _new_composite and CompositeStructMixin) over the primitive codecs Int8 *)
(* and Int16.                                                              *)
(*                                                                         *)
(* A Python value is modelled as an element [tp, v]: tp = "raw" is a plain *)
(* int, tp = "Int8" / "Int16" is an instance of that codec class.  What a  *)
(* composite stores under a field name is [isList, items]: a scalar is one *)
(* item with isList = FALSE, a Python list is isList = TRUE.  A composite  *)
(* (a dict subclass) is a function from the stored names to such values.   *)
(* An operation that may raise returns a record whose st field is "ok" or  *)
(* the name of the Python exception class.                                 *)
(***************************************************************************)
EXTENDS Integers, Sequences, FiniteSets, TLC

\* ------------------------------------------------------------------ bounds
MaxVal == 1
MaxLen == 3
MaxBuf == 4
MaxOffset == 1

\* ------------------------------------------------------- primitive codecs
ENDIAN == "<"

Prims == {"Int8", "Int16"}

\* struct.Struct(fmt).size for the formats 'b' and 'h'
StructSize(tp) == IF tp = "Int8" THEN 1 ELSE 2

\* the values struct accepts for the formats 'b' and 'h'
InRange(tp, v) ==
  IF tp = "Int8" THEN v >= -128 /\ v <= 127
  ELSE v >= -32768 /\ v <= 32767

Pow256(k) == 256^k

\* the k-th least significant byte of v in two's complement
ByteOf(v, k) == (v \div Pow256(k)) % 256

Reverse(s) == [i \in 1..Len(s) |-> s[Len(s) + 1 - i]]

\* PrimitiveStructMixin.pack: self.__struct__.pack(self)
PrimPack(tp, v) ==
  IF ~InRange(tp, v) THEN [st |-> "struct.error", bytes |-> <<>>]
  ELSE LET le == [k \in 1..StructSize(tp) |-> ByteOf(v, k - 1)]
       IN [st |-> "ok", bytes |-> IF ENDIAN = "<" THEN le ELSE Reverse(le)]

RECURSIVE LeValue(_)
\* the unsigned value of a little-endian byte string
LeValue(bs) == IF bs = <<>> THEN 0 ELSE bs[1] + 256 * LeValue(Tail(bs))

\* PrimitiveStructMixin.unpack_from: cls.__struct__.unpack_from(buf, offset)
PrimUnpackFrom(tp, buf, offset) ==
  IF offset < 0 \/ offset + StructSize(tp) > Len(buf)
  THEN [st |-> "struct.error", v |-> 0]
  ELSE LET raw == SubSeq(buf, offset + 1, offset + StructSize(tp))
           u == LeValue(IF ENDIAN = "<" THEN raw ELSE Reverse(raw))
           half == Pow256(StructSize(tp)) \div 2
       IN [st |-> "ok", v |-> IF u >= half THEN u - 2 * half ELSE u]

\* buf[offset : offset + len(bs)] = bs, as struct's pack_into writes it
WriteAt(buf, offset, bs) ==
  [i \in 1..Len(buf) |->
     IF i > offset /\ i <= offset + Len(bs) THEN bs[i - offset] ELSE buf[i]]

\* ---------------------------------------------------------- Python values
Raw(v) == [tp |-> "raw", v |-> v]
Inst(tp, v) == [tp |-> tp, v |-> v]

Scalar(e) == [isList |-> FALSE, items |-> <<e>>]
List(es) == [isList |-> TRUE, items |-> es]
\* Python's None
None == [isList |-> FALSE, items |-> <<>>]

Ok(val, o) == [st |-> "ok", val |-> val, obj |-> o]
Raise(exc, o) == [st |-> exc, val |-> None, obj |-> o]

\* dict.__setitem__
DictSet(o, k, val) == [x \in (DOMAIN o) \cup {k} |-> IF x = k THEN val ELSE o[x]]

\* the empty dict a composite class constructs: cls()
EmptyObj == [x \in {} |-> None]

\* the numeric value of a scalar (an int or an instance of an int codec)
IntOf(val) == val.items[1].v

\* ------------------------------------------------------ field specifications
Lit(n) == [kind |-> "lit", n |-> n, name |-> ""]
NoDefault == [kind |-> "NoDefault", n |-> 0, name |-> ""]

counted_by(name) == [kind |-> "counted_by", n |-> 0, name |-> name]

count_of(name) == [kind |-> "count_of", n |-> 0, name |-> name]

\* a default resolver as the demo's "lambda o: o['data'].size"
size_of(name) == [kind |-> "size_of", n |-> 0, name |-> name]

\* Python's callable(x) for a count or a default
callable(x) == x.kind \in {"counted_by", "count_of", "size_of"}

field(name, tp, count, default) ==
  [name |-> name, tp |-> tp, count |-> count, default |-> default]

\* the last specification of the name n: a later dict entry replaces an earlier
LastSpec(specs, n) ==
  specs[CHOOSE j \in 1..Len(specs) :
          /\ specs[j].name = n
          /\ \A k \in (j + 1)..Len(specs) : specs[k].name # n]

\* DumpyMeta._new_composite: __fields__ and __field_info__ from the specs
new_composite(specs) ==
  [fields |-> [i \in 1..Len(specs) |-> specs[i].name],
   field_info |->
     [n \in {specs[i].name : i \in 1..Len(specs)} |->
        [tp |-> LastSpec(specs, n).tp, count |-> LastSpec(specs, n).count,
         default |-> LastSpec(specs, n).default]]]

\* --------------------------------------------------------- field resolution
\* Every operation below that may raise is written as the call and, in a
\* second definition taking the call's result, what the code does with it.

\* _safe_get that forgets its default argument
safe_get_none(o, fname, default) == IF fname \in DOMAIN o THEN o[fname] ELSE None

\* CompositeStructMixin._safe_get
safe_get(o, fname, default) == IF fname \in DOMAIN o THEN o[fname] ELSE default

RECURSIVE getitem(_, _, _)
RECURSIVE default_list(_, _, _, _)

\* len(...) of count_of_func, given obj[name]
len_of(r) ==
  IF r.st # "ok" THEN r
  ELSE IF ~r.val.isList THEN Raise("TypeError", r.obj)
  ELSE Ok(Scalar(Raw(Len(r.val.items))), r.obj)

\* count_of_func that returns the field as counted_by_func does
count_of_func_field(c, o, name) == getitem(c, o, name)

\* count_of_func: len(obj[name])
count_of_func(c, o, name) == len_of(getitem(c, o, name))

\* counted_by_func: obj[name]
counted_by_func(c, o, name) == getitem(c, o, name)

\* the size attribute of obj[name]: that of a codec instance; a plain int and
\* a list have none
size_attr(r) ==
  IF r.st # "ok" THEN r
  ELSE IF r.val.isList \/ r.val.items[1].tp = "raw"
  THEN Raise("AttributeError", r.obj)
  ELSE Ok(Scalar(Raw(StructSize(r.val.items[1].tp))), r.obj)

\* lambda o: o[name].size
size_of_func(c, o, name) == size_attr(getitem(c, o, name))

\* count(obj) for a callable count
call_count(c, o, count) ==
  IF count.kind = "count_of" THEN count_of_func(c, o, count.name)
  ELSE counted_by_func(c, o, count.name)

\* default(self) for a callable default
call_default(c, o, default) ==
  IF default.kind = "size_of" THEN size_of_func(c, o, default.name)
  ELSE count_of_func(c, o, default.name)

\* one more element of the list comprehension, given the elements after it
prepend(items, rest) ==
  IF rest.st # "ok" THEN rest ELSE Ok(List(items \o rest.val.items), rest.obj)

\* the list comprehension of _get_field, given its first default(self)
default_list_next(c, default, k, d) ==
  IF d.st # "ok" THEN d
  ELSE prepend(d.val.items, default_list(c, d.obj, default, k - 1))

\* [default(self) for _i in range(k)]
default_list(c, o, default, k) ==
  IF k <= 0 THEN Ok(List(<<>>), o)
  ELSE default_list_next(c, default, k, call_default(c, o, default))

\* [default] * k
repeat_default(o, default, k) == Ok(List([i \in 1..k |-> Raw(default.n)]), o)

\* val_list += default_list; return val_list.  += extends the stored list
\* object in place; a list that _safe_get made up is stored nowhere.
extend(fname, val_list, dl) ==
  IF dl.st # "ok" THEN dl
  ELSE Ok(List(val_list.items \o dl.val.items),
          IF fname \in DOMAIN dl.obj
          THEN DictSet(dl.obj, fname, List(val_list.items \o dl.val.items))
          ELSE dl.obj)

\* _get_field, count > 1
get_list(c, o, fname, count, default, val_list) ==
  IF Len(val_list.items) < count.n THEN
    IF default.kind = "NoDefault" THEN Raise("ValueError", o)
    ELSE extend(fname, val_list,
                IF callable(default)
                THEN default_list(c, o, default, count.n - Len(val_list.items))
                ELSE repeat_default(o, default, count.n - Len(val_list.items)))
  ELSE Ok(val_list, o)

\* field_val = self._safe_get(fname, default), given the default
with_default(fname, d) ==
  IF d.st # "ok" THEN d ELSE Ok(safe_get(d.obj, fname, d.val), d.obj)

\* _get_field, count == 1: a callable default is called before the lookup
get_scalar(c, o, fname, default) ==
  IF default.kind = "NoDefault"
  THEN IF fname \in DOMAIN o THEN Ok(o[fname], o) ELSE Raise("KeyError", o)
  ELSE with_default(fname, IF callable(default) THEN call_default(c, o, default)
                           ELSE Ok(Scalar(Raw(default.n)), o))

\* how many times _get_field calls the field's default resolver: once for
\* each element of the list comprehension (count > 1, a short list)
default_calls(c, o, fname, count, default) ==
  IF ~callable(count) /\ count.n > 1 /\ callable(default)
       /\ Len(safe_get(o, fname, List(<<>>)).items) < count.n
  THEN Len(default_list(c, o, default,
                        count.n - Len(safe_get(o, fname, List(<<>>)).items)).val.items)
  ELSE 0

\* CompositeStructMixin._get_field
get_field(c, o, fname, count, default) ==
  IF callable(count) THEN Ok(safe_get(o, fname, List(<<>>)), o)
  ELSE IF count.n > 1
  THEN get_list(c, o, fname, count, default, safe_get(o, fname, List(<<>>)))
  ELSE IF count.n = 1 THEN get_scalar(c, o, fname, default)
  ELSE Ok(None, o)

\* __getitem__, given what _get_field returned
readable(ret) ==
  IF ret.st = "ok" /\ ret.val = None THEN Raise("ValueError", ret.obj) ELSE ret

\* CompositeStructMixin.__getitem__
getitem(c, o, fname) ==
  IF fname \notin DOMAIN c.field_info THEN Raise("KeyError", o)
  ELSE readable(get_field(c, o, fname, c.field_info[fname].count,
                          c.field_info[fname].default))

Typed(st, tp, o) == [st |-> st, tp |-> tp, obj |-> o]

\* a type resolver that answers Int8 whatever the tag
type_of_tag_int8(t) ==
  IF t.st # "ok" THEN Typed(t.st, "None", t.obj) ELSE Typed("ok", "Int8", t.obj)

\* a type resolver as test_variable_type's get_type, given obj['type']: Int8
\* for tag 0, Int16 for tag 1, else None
type_of_tag(t) ==
  IF t.st # "ok" THEN Typed(t.st, "None", t.obj)
  ELSE IF t.val.isList THEN Typed("ok", "None", t.obj)
  ELSE Typed("ok", IF IntOf(t.val) = 0 THEN "Int8"
                   ELSE IF IntOf(t.val) = 1 THEN "Int16" ELSE "None", t.obj)

get_type(c, o) == type_of_tag(getitem(c, o, "type"))

\* "if isinstance(ftype, VariableType): ftype = ftype.get_type(self)"
resolve_type(c, o, ftype) ==
  IF ftype = "VariableType" THEN get_type(c, o) ELSE Typed("ok", ftype, o)

\* ------------------------------------------------------------ element types
\* The composite class that is itself the type of a field (Body of
\* test_multi_level_composite) and the sequence codec (ByteArray of
\* TestArray).  An instance of Body is an element [tp, v, parent]: v is the
\* value of its one field, parent its parent attribute: "unset" when no one
\* has set it, "object" when it is the parent object itself, "weakref" when
\* it is a weakref.ref to it.
CompositeTypes == {"Body"}

SequenceTypes == {"ByteArray"}

Child(tp, v, parent) == [tp |-> tp, v |-> v, parent |-> parent]

\* a plain dict {'field': v}; the program assigns one only to a field of a
\* composite type, which stores the instance made of it
Dict(v) == [tp |-> "dict", v |-> v]

\* class Body(dict, metaclass=DumpyMeta): one Int8 field
class_of(tp) ==
  [name |-> tp,
   fields |-> new_composite(<<field("field", "Int8", Lit(1), NoDefault)>>).fields,
   field_info |->
     new_composite(<<field("field", "Int8", Lit(1), NoDefault)>>).field_info]

\* the dict that an instance of Body is
ChildObj(v) == [x \in {"field"} |-> Scalar(Raw(v.v))]

\* unpack_from: obj.parent = weakref.ref(parent), or None without a parent
parent_attr(parent) == IF parent # "None" THEN "weakref" ELSE "None"

RECURSIVE pack_fields(_, _, _)
RECURSIVE size_fields(_, _, _)
RECURSIVE unpack_fields(_, _, _, _, _)
RECURSIVE pack_into(_, _, _, _)

\* v.pack() of an instance of tp, or tp(v).pack() of a plain value: a
\* composite packs its fields; tp(v) of a plain int is a TypeError for a
\* composite and for a sequence type
ElemPack(tp, v) ==
  IF tp \in CompositeTypes
  THEN IF v.tp = tp THEN pack_fields(class_of(tp), ChildObj(v), 1)
       ELSE [st |-> "TypeError", bytes |-> <<>>]
  ELSE IF tp \in SequenceTypes THEN [st |-> "TypeError", bytes |-> <<>>]
  ELSE PrimPack(tp, v.v)

\* the size property: its outcome and the number
sized(r) == [st |-> r.st, n |-> r.n]

\* v.size of an instance of tp, or tp(v).size of a plain value
ElemSize(tp, v) ==
  IF tp \in CompositeTypes
  THEN IF v.tp = tp THEN sized(size_fields(class_of(tp), ChildObj(v), 1))
       ELSE [st |-> "TypeError", n |-> 0]
  ELSE IF tp \in SequenceTypes \/ tp = "None" THEN [st |-> "TypeError", n |-> 0]
  ELSE [st |-> "ok", n |-> StructSize(tp)]

\* ------------------------------------------------------------------- set
\* a truth test in place of isinstance: an empty list passes for a non-list
isinstance_list_truthy(value) == value.isList /\ Len(value.items) > 0

\* isinstance(value, list)
isinstance_list(value) == value.isList

\* CompositeStructMixin._normalize_composite raises for some v of the value:
\* issubclass(ftype, ...) is a TypeError when the type resolver returned None
\* (a primitive type leaves every v as it is)
normalize_raises(items, ftype) ==
  /\ Len(items) > 0
  /\ \/ ftype = "None"
     \/ /\ ftype \in CompositeTypes
        /\ \E i \in 1..Len(items) : items[i].tp \notin {ftype, "dict"}

\* CompositeStructMixin._normalize_composite: for a composite ftype, v or
\* ftype(v), with value.parent = self
normalize_composite(v, ftype) ==
  IF ftype \in CompositeTypes THEN Child(ftype, v.v, "object") ELSE v

\* value = normalize(value); super().__setitem__(fname, value)
store(t, fname, value) ==
  IF normalize_raises(value.items, t.tp) THEN Raise("TypeError", t.obj)
  ELSE Ok(None, DictSet(t.obj, fname,
                         [value EXCEPT !.items =
                            [i \in 1..Len(value.items) |->
                               normalize_composite(value.items[i], t.tp)]]))

\* __setitem__ without its shape and length checks
setitem_typed_unchecked(fname, value, count, default, t) ==
  IF t.st # "ok" THEN Raise(t.st, t.obj) ELSE store(t, fname, value)

\* __setitem__, given the resolved field type
setitem_typed(fname, value, count, default, t) ==
  IF t.st # "ok" THEN Raise(t.st, t.obj)
  ELSE IF callable(count) THEN
    IF ~isinstance_list(value) THEN Raise("TypeError", t.obj)
    ELSE store(t, fname, value)
  ELSE IF count.n > 1 THEN
    IF ~isinstance_list(value) THEN Raise("TypeError", t.obj)
    ELSE IF Len(value.items) > count.n THEN Raise("ValueError", t.obj)
    ELSE IF Len(value.items) < count.n /\ default.kind = "NoDefault"
    THEN Raise("ValueError", t.obj)
    ELSE store(t, fname, value)
  ELSE IF count.n = 1 THEN
    IF isinstance_list(value) THEN Raise("TypeError", t.obj)
    ELSE store(t, fname, value)
  ELSE Raise("ValueError", t.obj)

\* CompositeStructMixin.__setitem__
setitem(c, o, fname, value) ==
  IF fname \notin DOMAIN c.field_info THEN Raise("KeyError", o)
  ELSE setitem_typed(fname, value, c.field_info[fname].count,
                     c.field_info[fname].default,
                     resolve_type(c, o, c.field_info[fname].tp))

\* ------------------------------------------------------------------- pack
Bytes(st, bytes, o) == [st |-> st, bytes |-> bytes, obj |-> o]

\* bin_list.append(packed), given what the later values packed to
join(bytes, rest) ==
  IF rest.st # "ok" THEN Bytes(rest.st, <<>>, rest.obj)
  ELSE Bytes("ok", bytes \o rest.bytes, rest.obj)

\* the class whose pack, pack_into and size serve v: its own if v is a codec
\* instance, else (AttributeError) the field's type ftype, as ftype(v)
ElemType(v, ftype) == IF v.tp # "raw" THEN v.tp ELSE ftype

\* the field type after "try: v.pack() except AttributeError: resolve ftype"
TypeFor(c, o, ftype, v) ==
  IF v.tp = "raw" THEN resolve_type(c, o, ftype) ELSE Typed("ok", ftype, o)

RECURSIVE pack_items(_, _, _, _)

\* the loop "for v in val" of pack, given the first v packed
pack_rest(c, t, items, packed) ==
  IF packed.st # "ok" THEN Bytes(packed.st, <<>>, t.obj)
  ELSE join(packed.bytes, pack_items(c, t.obj, t.tp, Tail(items)))

\* the loop "for v in val" of pack, given the type that packs the first v
pack_item(c, items, t) ==
  IF t.st # "ok" THEN Bytes(t.st, <<>>, t.obj)
  ELSE IF ElemType(Head(items), t.tp) = "None" THEN Bytes("TypeError", <<>>, t.obj)
  ELSE pack_rest(c, t, items,
                 ElemPack(ElemType(Head(items), t.tp), Head(items)))

\* the loop "for v in val" of pack
pack_items(c, o, ftype, items) ==
  IF items = <<>> THEN Bytes("ok", <<>>, o)
  ELSE pack_item(c, items, TypeFor(c, o, ftype, Head(items)))

\* the loop over __fields__ of pack, given field i packed
pack_next(c, i, b) ==
  IF b.st # "ok" THEN b ELSE join(b.bytes, pack_fields(c, b.obj, i + 1))

\* the loop over __fields__ of pack, given the value of field i
pack_field(c, i, val) ==
  IF val.st # "ok" THEN Bytes(val.st, <<>>, val.obj)
  ELSE IF val.val = None THEN pack_fields(c, val.obj, i + 1)
  ELSE pack_next(c, i, pack_items(c, val.obj, c.field_info[c.fields[i]].tp,
                                  val.val.items))

\* the loop "for fname in self.__fields__" of pack, from field i on
pack_fields(c, o, i) ==
  IF i > Len(c.fields) THEN Bytes("ok", <<>>, o)
  ELSE pack_field(c, i, get_field(c, o, c.fields[i],
                                  c.field_info[c.fields[i]].count,
                                  c.field_info[c.fields[i]].default))

\* CompositeStructMixin.pack
pack(c, o) == pack_fields(c, o, 1)

\* ------------------------------------------------------------------- size
Size(st, n, o) == [st |-> st, n |-> n, obj |-> o]

\* _safe_size without the try: the declared type's size for every value
safe_size_declared(v, ftype) ==
  IF ftype = "None" THEN [st |-> "TypeError", n |-> 0]
  ELSE [st |-> "ok", n |-> StructSize(ftype)]

\* CompositeStructMixin._safe_size: v.size, or ftype(v).size for a plain value
safe_size(v, ftype) == ElemSize(ElemType(v, ftype), v)

\* size += the size of one value, given the sizes of the later ones
add_size(a, rest) ==
  IF a.st # "ok" THEN a
  ELSE IF rest.st # "ok" THEN rest
  ELSE [st |-> "ok", n |-> a.n + rest.n]

RECURSIVE size_items(_, _)
\* the loop "for v in val" of size
size_items(items, ftype) ==
  IF items = <<>> THEN [st |-> "ok", n |-> 0]
  ELSE add_size(safe_size(Head(items), ftype), size_items(Tail(items), ftype))

\* size += the size of one field, given the size of the later ones
add_field(n, rest) ==
  IF rest.st # "ok" THEN Size(rest.st, 0, rest.obj)
  ELSE Size("ok", n + rest.n, rest.obj)

\* the loop over __fields__ of size, given the size of field i
size_next(c, i, o, a) ==
  IF a.st # "ok" THEN Size(a.st, 0, o)
  ELSE add_field(a.n, size_fields(c, o, i + 1))

\* the loop over __fields__ of size, given the resolved type of field i
size_typed(c, i, items, t) ==
  IF t.st # "ok" THEN Size(t.st, 0, t.obj)
  ELSE size_next(c, i, t.obj, size_items(items, t.tp))

\* the loop over __fields__ of size, given the value of field i
size_field(c, i, val) ==
  IF val.st # "ok" THEN Size(val.st, 0, val.obj)
  ELSE IF val.val = None THEN size_fields(c, val.obj, i + 1)
  ELSE size_typed(c, i, val.val.items,
                  resolve_type(c, val.obj, c.field_info[c.fields[i]].tp))

\* the loop "for fname in self.__fields__" of size, from field i on
size_fields(c, o, i) ==
  IF i > Len(c.fields) THEN Size("ok", 0, o)
  ELSE size_field(c, i, get_field(c, o, c.fields[i],
                                  c.field_info[c.fields[i]].count,
                                  c.field_info[c.fields[i]].default))

\* CompositeStructMixin.size
size(c, o) == size_fields(c, o, 1)

\* -------------------------------------------------------------- pack_into
Into(st, buf, offset, o) == [st |-> st, buf |-> buf, offset |-> offset, obj |-> o]

\* struct's pack_into, given the packed bytes
write_packed(packed, buf, offset) ==
  IF packed.st # "ok" \/ offset + Len(packed.bytes) > Len(buf)
  THEN [st |-> "struct.error", buf |-> buf]
  ELSE [st |-> "ok", buf |-> WriteAt(buf, offset, packed.bytes)]

\* PrimitiveStructMixin.pack_into: self.__struct__.pack_into(buf, offset, self)
PrimPackInto(tp, v, buf, offset) == write_packed(PrimPack(tp, v), buf, offset)

\* v.pack_into(buf, offset) of an instance of tp, or of tp(v)
ElemPackInto(tp, v, buf, offset) ==
  IF tp \in CompositeTypes
  THEN IF v.tp = tp THEN pack_into(class_of(tp), ChildObj(v), buf, offset)
       ELSE [st |-> "TypeError", buf |-> buf]
  ELSE IF tp \in SequenceTypes THEN [st |-> "TypeError", buf |-> buf]
  ELSE PrimPackInto(tp, v.v, buf, offset)

RECURSIVE into_items(_, _, _, _, _, _)

\* the loop "for v in val" of pack_into, given the first v written:
\* offset += v.size
into_rest(c, t, items, offset, w) ==
  IF w.st # "ok" THEN Into(w.st, w.buf, offset, t.obj)
  ELSE into_items(c, t.obj, t.tp, Tail(items), w.buf,
                  offset + ElemSize(ElemType(Head(items), t.tp), Head(items)).n)

\* the loop "for v in val" of pack_into, given the type that packs the first v
into_item(c, items, buf, offset, t) ==
  IF t.st # "ok" THEN Into(t.st, buf, offset, t.obj)
  ELSE IF ElemType(Head(items), t.tp) = "None"
  THEN Into("TypeError", buf, offset, t.obj)
  ELSE into_rest(c, t, items, offset,
                 ElemPackInto(ElemType(Head(items), t.tp), Head(items),
                              buf, offset))

\* the loop "for v in val" of pack_into
into_items(c, o, ftype, items, buf, offset) ==
  IF items = <<>> THEN Into("ok", buf, offset, o)
  ELSE into_item(c, items, buf, offset, TypeFor(c, o, ftype, Head(items)))

RECURSIVE into_fields(_, _, _, _, _)

\* the loop over __fields__ of pack_into, given field i written
into_next(c, i, w) ==
  IF w.st # "ok" THEN w ELSE into_fields(c, w.obj, i + 1, w.buf, w.offset)

\* the loop over __fields__ of pack_into, given the value of field i
into_field(c, i, buf, offset, val) ==
  IF val.st # "ok" THEN Into(val.st, buf, offset, val.obj)
  ELSE IF val.val = None THEN into_fields(c, val.obj, i + 1, buf, offset)
  ELSE into_next(c, i, into_items(c, val.obj, c.field_info[c.fields[i]].tp,
                                  val.val.items, buf, offset))

\* the loop "for fname in self.__fields__" of pack_into, from field i on
into_fields(c, o, i, buf, offset) ==
  IF i > Len(c.fields) THEN Into("ok", buf, offset, o)
  ELSE into_field(c, i, buf, offset,
                  get_field(c, o, c.fields[i], c.field_info[c.fields[i]].count,
                            c.field_info[c.fields[i]].default))

\* len(buf) in place of len(buf[offset:])
SliceLen_whole(buf, offset) == Len(buf)

\* len(buf[offset:]) for offset >= 0
SliceLen(buf, offset) == IF offset >= Len(buf) THEN 0 ELSE Len(buf) - offset

\* pack_into, given total_size = self.size
pack_into_sized(c, buf, offset, total_size) ==
  IF total_size.st # "ok" THEN Into(total_size.st, buf, offset, total_size.obj)
  ELSE IF SliceLen(buf, offset) < total_size.n
  THEN Into("ValueError", buf, offset, total_size.obj)
  ELSE into_fields(c, total_size.obj, 1, buf, offset)

\* CompositeStructMixin.pack_into
pack_into(c, o, buf, offset) == pack_into_sized(c, buf, offset, size(c, o))

\* ----------------------------------------------------------------- unpack
Unpacked(st, o, offset) == [st |-> st, obj |-> o, offset |-> offset]

Items(st, items, offset) == [st |-> st, items |-> items, offset |-> offset]

\* a loop that runs once even for a count of 0
RangeLen_once(real_count) == IF real_count > 0 THEN real_count ELSE 1

\* len(range(real_count)): how often "for i in range(real_count)" runs
RangeLen(real_count) == IF real_count > 0 THEN real_count ELSE 0

\* val_list.append(v), given the values unpacked after v
append(e, rest) == Items(rest.st, <<e>> \o rest.items, rest.offset)

\* the value v that a primitive's unpack_from made, with v.size
unpacked_prim(ftype, r) ==
  [st |-> r.st, elem |-> Inst(ftype, r.v), size |-> StructSize(ftype)]

\* the instance v of a composite, with v.size
child_sized(e) == [st |-> "ok", elem |-> e, size |-> ElemSize(e.tp, e).n]

\* the value v that a composite's unpack_from made with the parent obj
unpacked_child(ftype, r) ==
  IF r.st # "ok" THEN [st |-> r.st, elem |-> Raw(0), size |-> 0]
  ELSE child_sized(Child(ftype, IntOf(r.obj["field"]), parent_attr("obj")))

\* whether ftype.unpack_from has a parameter for the parent: that of the
\* primitives and of the composites has, SequenceStructMixin's has not
takes_parent(ftype) == ftype \notin SequenceTypes

\* v = ftype.unpack_from(buf, offset, obj): a TypeError when unpack_from takes
\* no third argument
ElemUnpackFrom(ftype, buf, offset) ==
  IF ~takes_parent(ftype) THEN [st |-> "TypeError", elem |-> Raw(0), size |-> 0]
  ELSE IF ftype \in CompositeTypes
  THEN unpacked_child(ftype, unpack_fields(class_of(ftype), EmptyObj, 1,
                                           buf, offset))
  ELSE unpacked_prim(ftype, PrimUnpackFrom(ftype, buf, offset))

RECURSIVE unpack_items(_, _, _, _)

\* the loop advancing by one byte per value, whatever v.size is
unpack_item_one_byte(ftype, n, buf, offset, v) ==
  IF v.st # "ok" THEN Items(v.st, <<>>, offset)
  ELSE append(v.elem, unpack_items(ftype, n - 1, buf, offset + 1))

\* the loop of unpack_from over range(real_count), given the first v:
\* offset += v.size
unpack_item(ftype, n, buf, offset, v) ==
  IF v.st # "ok" THEN Items(v.st, <<>>, offset)
  ELSE append(v.elem, unpack_items(ftype, n - 1, buf, offset + v.size))

\* the loop "for i in range(real_count)" of unpack_from with n runs left:
\* v = ftype.unpack_from(buf, offset, obj)
unpack_items(ftype, n, buf, offset) ==
  IF n <= 0 THEN Items("ok", <<>>, offset)
  ELSE IF ftype = "None" THEN Items("AttributeError", <<>>, offset)
  ELSE unpack_item(ftype, n, buf, offset, ElemUnpackFrom(ftype, buf, offset))

\* storing by the number of values alone, whatever the count is
stored_by_length(o, fname, count, items) ==
  IF Len(items) > 1 THEN DictSet(o, fname, List(items))
  ELSE IF Len(items) = 1 THEN DictSet(o, fname, Scalar(items[1]))
  ELSE o

\* what unpack_from stores for a field: the list for a callable count or more
\* than one value, the value itself for one, nothing for none
stored(o, fname, count, items) ==
  IF callable(count) \/ Len(items) > 1 THEN DictSet(o, fname, List(items))
  ELSE IF Len(items) = 1 THEN DictSet(o, fname, Scalar(items[1]))
  ELSE o

\* the loop over __fields__ of unpack_from, given the values of field i
unpack_store(c, i, offset, buf, o, val_list) ==
  IF val_list.st # "ok" THEN Unpacked(val_list.st, o, offset)
  ELSE unpack_fields(c, stored(o, c.fields[i], c.field_info[c.fields[i]].count,
                               val_list.items),
                     i + 1, buf, val_list.offset)

\* the loop over __fields__ of unpack_from, given the resolved type of field i
unpack_typed(c, i, buf, offset, real_count, t) ==
  IF t.st # "ok" THEN Unpacked(t.st, t.obj, offset)
  ELSE unpack_store(c, i, offset, buf, t.obj,
                    unpack_items(t.tp, RangeLen(real_count), buf, offset))

\* the loop over __fields__ of unpack_from, given real_count of field i
unpack_counted(c, i, buf, offset, rc) ==
  IF rc.st # "ok" THEN Unpacked(rc.st, rc.obj, offset)
  ELSE IF rc.val.isList THEN Unpacked("TypeError", rc.obj, offset)
  ELSE unpack_typed(c, i, buf, offset, IntOf(rc.val),
                    resolve_type(c, rc.obj, c.field_info[c.fields[i]].tp))

\* the loop "for fname in cls.__fields__" of unpack_from, from field i on
unpack_fields(c, o, i, buf, offset) ==
  IF i > Len(c.fields) THEN Unpacked("ok", o, offset)
  ELSE unpack_counted(c, i, buf, offset,
         IF callable(c.field_info[c.fields[i]].count)
         THEN call_count(c, o, c.field_info[c.fields[i]].count)
         ELSE Ok(Scalar(Raw(c.field_info[c.fields[i]].count.n)), o))

\* CompositeStructMixin.unpack_from (parent=None): obj = cls(), then the fields
unpack_from(c, buf, offset) == unpack_fields(c, EmptyObj, 1, buf, offset)

\* CompositeStructMixin.unpack
unpack(c, buf) == unpack_from(c, buf, 0)

\* ------------------------------------------------------------ the program
\* The composite classes the program may define (from the tests): their
\* __field_specs__.
ClassNames == {"A", "L", "B", "V", "T", "N"}

\* The classes whose defaults are resolvers (D as test_dynamic_default with a
\* default that reads the composite, P as the demo's PNGChunk: a tag that
\* defaults to a reading of the field it selects the type of).
ResolverClassNames == {"D", "P"}

FieldSpecs(clsname) ==
  CASE clsname = "A" ->
         <<field("field1", "Int8", Lit(1), NoDefault),
           field("field2", "Int8", Lit(1), Lit(9))>>
    [] clsname = "L" ->
         <<field("field3", "Int8", Lit(2), NoDefault),
           field("field4", "Int8", Lit(2), Lit(1))>>
    [] clsname = "B" ->
         <<field("head", "Int8", Lit(1), Lit(0)),
           field("field", "Int8", Lit(0), NoDefault),
           field("tail", "Int8", Lit(1), Lit(0))>>
    [] clsname = "V" ->
         <<field("len", "Int8", Lit(1), count_of("numbers")),
           field("numbers", "Int8", counted_by("len"), NoDefault)>>
    [] clsname = "T" ->
         <<field("type", "Int8", Lit(1), NoDefault),
           field("data", "VariableType", Lit(1), NoDefault)>>
    [] clsname = "N" ->
         <<field("head", "Int8", Lit(1), Lit(0)),
           field("field", "Int8", Lit(-1), NoDefault)>>
    [] clsname = "D" ->
         <<field("misc", "Int8", Lit(2), count_of("numbers")),
           field("numbers", "Int8", count_of("misc"), NoDefault)>>
    [] clsname = "P" ->
         <<field("type", "Int8", Lit(1), size_of("data")),
           field("data", "VariableType", Lit(1), NoDefault)>>
    [] clsname = "M" ->
         <<field("header", "Body", Lit(1), NoDefault),
           field("bodies", "Body", Lit(2), NoDefault)>>
    [] clsname = "S" ->
         <<field("array", "ByteArray", Lit(1), NoDefault)>>
    [] clsname = "Q" ->
         <<field("numbers", "Int8", counted_by("tail"), NoDefault),
           field("tail", "Int8", Lit(1), Lit(1))>>

NoClass == [name |-> "", fields |-> <<>>, field_info |-> EmptyObj]

\* DumpyMeta.__new__ for a mapping base with __field_specs__
DumpyMeta(clsname) ==
  LET k == new_composite(FieldSpecs(clsname))
  IN [name |-> clsname, fields |-> k.fields, field_info |-> k.field_info]

VARIABLES
  cls,   \* the composite class the program defined (NoClass before)
  obj,   \* the composite instance the program holds
  ret    \* the last call and what it returned or raised; of an unpacked
         \* buffer, its length (len), the bytes consumed (bytes) and the
         \* offset reached (n)

vars == <<cls, obj, ret>>

NoRet ==
  [op |-> "none", st |-> "ok", fname |-> "", isList |-> FALSE, len |-> 0,
   val |-> None, bytes |-> <<>>, n |-> 0, offset |-> 0, pre |-> EmptyObj]

Vals == 0..MaxVal

\* the lists of ints the program assigns: of each length the two that
\* alternate 0 and 1
ListInputs ==
  {List([i \in 1..k |-> Raw((i + s) % 2)]) : k \in 0..MaxLen, s \in {0, 1}}

\* the bytes of the program's input: small ones and 0xff
ByteVals == Vals \cup {255}

RECURSIVE SeqsUpTo(_, _)
\* the sequences over S of length at most n
SeqsUpTo(S, n) ==
  IF n = 0 THEN {<<>>}
  ELSE LET shorter == SeqsUpTo(S, n - 1)
       IN shorter \cup {<<x>> \o t : x \in S, t \in {u \in shorter : Len(u) = n - 1}}

\* the values the program assigns: plain ints, codec instances, lists of ints
SetValues ==
  {Scalar(Raw(v)) : v \in Vals}
    \cup {Scalar(Inst(tp, v)) : tp \in Prims, v \in Vals}
    \cup ListInputs

\* the names the program uses: the declared ones and an undeclared one
NameInputs == {cls.fields[i] : i \in 1..Len(cls.fields)} \cup {"not_a_field"}

\* the byte strings the program unpacks
InputBuffers == SeqsUpTo(ByteVals, MaxBuf)

\* bytearray targets of pack_into, filled with 0x7e
Target(n) == [i \in 1..n |-> 126]

Init == cls = NoClass /\ obj = EmptyObj /\ ret = NoRet

\* class clsname(dict, metaclass=DumpyMeta), and a first instance clsname()
NewComposite(clsname) ==
  /\ cls = NoClass
  /\ cls' = DumpyMeta(clsname)
  /\ obj' = EmptyObj
  /\ ret' = [NoRet EXCEPT !.op = "new_composite"]

\* what a call leaves of the instance and of ret
Returns(o, r) == obj' = o /\ ret' = r /\ UNCHANGED cls

SetReturns(fname, value, r) ==
  Returns(r.obj, [NoRet EXCEPT !.op = "set", !.st = r.st, !.fname = fname,
                               !.isList = value.isList, !.len = Len(value.items)])

\* obj[fname] = value
SetItem(fname, value) ==
  cls # NoClass /\ SetReturns(fname, value, setitem(cls, obj, fname, value))

GetReturns(fname, r) ==
  Returns(r.obj, [NoRet EXCEPT !.op = "get", !.st = r.st, !.fname = fname,
                               !.val = r.val])

\* obj[fname]
GetItem(fname) == cls # NoClass /\ GetReturns(fname, getitem(cls, obj, fname))

SizeReturns(r) ==
  Returns(r.obj, [NoRet EXCEPT !.op = "size", !.st = r.st, !.n = r.n])

\* obj.size
GetSize == cls # NoClass /\ SizeReturns(size(cls, obj))

PackReturns(r) ==
  Returns(r.obj, [NoRet EXCEPT !.op = "pack", !.st = r.st, !.bytes = r.bytes])

\* obj.pack()
Pack == cls # NoClass /\ PackReturns(pack(cls, obj))

PackIntoReturns(offset, r) ==
  Returns(r.obj, [NoRet EXCEPT !.op = "pack_into", !.st = r.st, !.bytes = r.buf,
                               !.offset = offset])

\* obj.pack_into(bytearray(n) filled with 0x7e, offset)
PackInto(n, offset) ==
  cls # NoClass /\ PackIntoReturns(offset, pack_into(cls, obj, Target(n), offset))

UnpackReturns(op, buf, offset, r) ==
  IF r.st = "ok"
  THEN Returns(r.obj, [NoRet EXCEPT !.op = op, !.len = Len(buf),
                                    !.bytes = SubSeq(buf, offset + 1, r.offset),
                                    !.offset = offset, !.n = r.offset])
  ELSE Returns(obj, [NoRet EXCEPT !.op = op, !.st = r.st])

\* cls.unpack_from(buf, offset): a classmethod, taken before the program has
\* put anything into an instance of its own
UnpackFrom(buf, offset) ==
  /\ cls # NoClass /\ obj = EmptyObj
  /\ UnpackReturns("unpack_from", buf, offset, unpack_from(cls, buf, offset))

\* cls.unpack(buf)
Unpack(buf) ==
  /\ cls # NoClass /\ obj = EmptyObj
  /\ UnpackReturns("unpack", buf, 0, unpack(cls, buf))

UnpackPackedReturns(r) ==
  Returns(IF r.st = "ok" THEN r.obj ELSE obj,
          [NoRet EXCEPT !.op = "unpack_packed", !.st = r.st, !.bytes = ret.bytes,
                        !.n = r.offset, !.pre = obj])

\* cls.unpack(obj.pack()): the bytes the last pack returned, unpacked
UnpackPacked ==
  /\ ret.op = "pack" /\ ret.st = "ok"
  /\ UnpackPackedReturns(unpack(cls, ret.bytes))

Next ==
  \/ \E clsname \in ClassNames : NewComposite(clsname)
  \/ \E fname \in NameInputs, value \in SetValues : SetItem(fname, value)
  \/ \E fname \in NameInputs : GetItem(fname)
  \/ GetSize
  \/ Pack
  \/ \E n \in 0..MaxBuf, offset \in 0..MaxOffset : PackInto(n, offset)
  \/ \E buf \in InputBuffers, offset \in 0..MaxOffset : UnpackFrom(buf, offset)
  \/ \E buf \in InputBuffers : Unpack(buf)
  \/ UnpackPacked

Spec == Init /\ [][Next]_vars

\* the same program over the classes whose defaults are resolvers
NextResolvers ==
  \/ \E clsname \in ResolverClassNames : NewComposite(clsname)
  \/ \E fname \in NameInputs, value \in SetValues : SetItem(fname, value)
  \/ \E fname \in NameInputs : GetItem(fname)
  \/ GetSize
  \/ Pack
  \/ \E n \in 0..MaxBuf, offset \in 0..MaxOffset : PackInto(n, offset)
  \/ \E buf \in InputBuffers, offset \in 0..MaxOffset : UnpackFrom(buf, offset)
  \/ \E buf \in InputBuffers : Unpack(buf)
  \/ UnpackPacked

SpecResolvers == Init /\ [][NextResolvers]_vars

\* The class with fields of a composite type (Msg of
\* test_multi_level_composite).
NestedClassNames == {"M"}

\* the lists of dicts the program assigns to such a field
NestedLists ==
  {List([i \in 1..k |-> Dict((i + s) % 2)]) : k \in 0..MaxLen, s \in {0, 1}}

\* the values the program assigns to such a field: a dict, an instance of
\* Body not yet attached to a parent, one taken from an unpacked message, a
\* plain int, a list of two instances, lists of dicts
NestedValues ==
  {Scalar(Dict(v)) : v \in Vals}
    \cup {Scalar(Child("Body", v, parent)) : v \in Vals, parent \in {"unset", "weakref"}}
    \cup {Scalar(Raw(v)) : v \in Vals}
    \cup {List(<<Child("Body", v, "unset"), Child("Body", v, "weakref")>>) : v \in Vals}
    \cup NestedLists

\* the same program over the class with nested composites
NextNested ==
  \/ \E clsname \in NestedClassNames : NewComposite(clsname)
  \/ \E fname \in NameInputs, value \in NestedValues : SetItem(fname, value)
  \/ \E fname \in NameInputs : GetItem(fname)
  \/ GetSize
  \/ Pack
  \/ \E n \in 0..MaxBuf, offset \in 0..MaxOffset : PackInto(n, offset)
  \/ \E buf \in InputBuffers, offset \in 0..MaxOffset : UnpackFrom(buf, offset)
  \/ \E buf \in InputBuffers : Unpack(buf)
  \/ UnpackPacked

SpecNested == Init /\ [][NextNested]_vars

\* The class with a field of a sequence type (ByteArray of TestArray).
SequenceClassNames == {"S"}

\* the same program over the class with a sequence field
NextSequence ==
  \/ \E clsname \in SequenceClassNames : NewComposite(clsname)
  \/ \E fname \in NameInputs, value \in SetValues : SetItem(fname, value)
  \/ \E fname \in NameInputs : GetItem(fname)
  \/ GetSize
  \/ Pack
  \/ \E n \in 0..MaxBuf, offset \in 0..MaxOffset : PackInto(n, offset)
  \/ \E buf \in InputBuffers, offset \in 0..MaxOffset : UnpackFrom(buf, offset)
  \/ \E buf \in InputBuffers : Unpack(buf)
  \/ UnpackPacked

SpecSequence == Init /\ [][NextSequence]_vars

\* The classes whose fields have resolvers for unpack_from: a count read from
\* an earlier field (V), a type read from an earlier field (T), a count read
\* from a later field that has a default (Q).
OrderingClassNames == {"V", "T", "Q"}

\* the same program over these classes
NextOrdering ==
  \/ \E clsname \in OrderingClassNames : NewComposite(clsname)
  \/ \E fname \in NameInputs, value \in SetValues : SetItem(fname, value)
  \/ \E fname \in NameInputs : GetItem(fname)
  \/ GetSize
  \/ Pack
  \/ \E n \in 0..MaxBuf, offset \in 0..MaxOffset : PackInto(n, offset)
  \/ \E buf \in InputBuffers, offset \in 0..MaxOffset : UnpackFrom(buf, offset)
  \/ \E buf \in InputBuffers : Unpack(buf)
  \/ UnpackPacked

SpecOrdering == Init /\ [][NextOrdering]_vars

\* ------------------------------------------------------------- properties
\* the fields of c that an assignment can fill: every count but a literal 0
\* or less
Assignable(c) ==
  {n \in DOMAIN c.field_info :
     callable(c.field_info[n].count) \/ c.field_info[n].count.n >= 1}

\* every assignable field of c has a stored value in o
AllAssigned(c, o) == Assignable(c) \subseteq DOMAIN o

\* Python's == on two stored values: a list equals a list of equal elements,
\* an int codec instance equals the int of its value
ValueEq(a, b) ==
  /\ a.isList = b.isList
  /\ Len(a.items) = Len(b.items)
  /\ \A i \in 1..Len(a.items) : a.items[i].v = b.items[i].v

\* dict equality of two composites
FieldwiseEqual(a, b) ==
  DOMAIN a = DOMAIN b /\ \A n \in DOMAIN a : ValueEq(a[n], b[n])

\* repacking gives the bytes bs
RepacksTo(p, bs) == p.st = "ok" /\ p.bytes = bs

\* C1: round-trip identity.  For a composite c whose fields were all assigned
\* (ret.pre, the instance that packed to ret.bytes), unpack(pack(c)) succeeds,
\* is field-wise equal to c, and packs again to the bytes of pack(c); a length
\* field that was assigned explicitly is no exception.
C1_RoundTripIdentity ==
  (ret.op = "unpack_packed" /\ AllAssigned(cls, ret.pre))
    => /\ ret.st = "ok"
       /\ FieldwiseEqual(obj, ret.pre)
       /\ RepacksTo(pack(cls, obj), ret.bytes)

\* size agrees with a successful pack
SizeMatches(p, s) == p.st = "ok" => (s.st = "ok" /\ s.n = Len(p.bytes))

\* C2: size/pack consistency.  For every composite on which pack succeeds,
\* size equals the length of the packed bytes, whatever mix of plain values,
\* codec instances, defaults, dynamic counts and resolved types it holds.
C2_SizeIsPackLength ==
  /\ cls # NoClass => SizeMatches(pack(cls, obj), size(cls, obj))
  /\ (ret.op = "pack" /\ ret.st = "ok") => size(cls, obj).n = Len(ret.bytes)

\* a tagged composite whose tag was set to 1 after an Int8 instance was stored
\* as its data packs to two bytes (the tag, the instance), and its size is 2
C2_Witness ==
  /\ ret.op = "pack" /\ ret.st = "ok" /\ cls.name = "T"
  /\ IntOf(obj["type"]) = 1 /\ obj["data"].items[1].tp = "Int8"
  /\ Len(ret.bytes) = 2 /\ size(cls, obj).n = 2

\* the constructed value is smaller than the buffer of len bytes
LeavesTrailing(s, len) == s.st = "ok" /\ s.n < len

\* C3: top-level unpack fails (TrailingBytes) whenever the value it constructs
\* has a size smaller than the length of the buffer, so an unpack that returns
\* has consumed the whole buffer.
C3_TrailingBytes ==
  (ret.op = "unpack" /\ ret.st = "ok")
    => (~LeavesTrailing(size(cls, obj), ret.len) /\ ret.n = ret.len)

\* C4: no composite type with a negative literal count exists: defining one
\* fails (SchemaError) and leaves no class.
C4_NoNegativeCount ==
  \A n \in DOMAIN cls.field_info :
    cls.field_info[n].count.kind = "lit" => cls.field_info[n].count.n >= 0

RECURSIVE EncodeAll(_, _)
\* the encodings of the values vs under the codec tp, one after another
EncodeAll(tp, vs) ==
  IF vs = <<>> THEN <<>>
  ELSE PrimPack(tp, vs[1]).bytes \o EncodeAll(tp, Tail(vs))

\* the int values of a stored list
ValuesOf(val) == [i \in 1..Len(val.items) |-> val.items[i].v]

\* a composite of {len: default=count_of(numbers); numbers:
\* count=counted_by(len)} whose len was never assigned and whose numbers were
DynamicCase(c, o) ==
  c.name = "V" /\ "len" \notin DOMAIN o /\ "numbers" \in DOMAIN o

\* unpacking gave a list under numbers with the values vs, and it repacks to bs
ReproducesList(c, u, vs, bs) ==
  /\ u.st = "ok"
  /\ u.obj["numbers"].isList /\ ValuesOf(u.obj["numbers"]) = vs
  /\ RepacksTo(pack(c, u.obj), bs)

\* pack gave the encoding of n = Len(vs) and then the n encoded values of vs,
\* and those bytes unpack to the same list
PacksCounted(c, p, vs) ==
  /\ RepacksTo(p, PrimPack("Int8", Len(vs)).bytes \o EncodeAll("Int8", vs))
  /\ Len(p.bytes) = 1 + Len(vs)
  /\ ReproducesList(c, unpack(c, p.bytes), vs, p.bytes)

\* C5: dynamic-count round trip.  With len never assigned and numbers assigned
\* a list of n elements (n = 0 too), pack emits the encoding of n and then
\* exactly the n elements, get(len) returns n, and unpacking those bytes gives
\* a numbers list of the same length and values that packs to the same bytes.
C5_DynamicCountRoundTrip ==
  DynamicCase(cls, obj)
    => /\ PacksCounted(cls, pack(cls, obj), ValuesOf(obj["numbers"]))
       /\ getitem(cls, obj, "len").st = "ok"
       /\ getitem(cls, obj, "len").val = Scalar(Raw(Len(obj["numbers"].items)))

\* numbers = [1, 0] with len unset packed to 02 01 00, and unpacking that gave
\* back len 2 and the two numbers
C5_Witness ==
  /\ ret.op = "unpack_packed" /\ ret.st = "ok" /\ DynamicCase(cls, ret.pre)
  /\ ValuesOf(ret.pre["numbers"]) = <<1, 0>>
  /\ ret.bytes = <<2, 1, 0>>
  /\ IntOf(obj["len"]) = 2 /\ ValuesOf(obj["numbers"]) = <<1, 0>>

\* the signed value of the tag byte b
TagOf(b) == IF b >= 128 THEN b - 256 ELSE b

\* the codec that get_type of test_variable_type selects for a tag
CodecOfTag(tag) == IF tag = 0 THEN "Int8" ELSE IF tag = 1 THEN "Int16" ELSE "None"

\* an unpack_from of the tagged composite returned
TaggedCase ==
  cls.name = "T" /\ ret.op \in {"unpack", "unpack_from"} /\ ret.st = "ok"

\* C6: tagged dispatch.  unpack_from decodes the type-resolved field with the
\* codec the resolver gives for the tag read from the buffer, consumes the
\* tag's byte and that codec's size, and the result packs to the consumed
\* bytes.
C6_TaggedDispatch ==
  TaggedCase
    => /\ obj["data"].items[1].tp = CodecOfTag(TagOf(ret.bytes[1]))
       /\ IntOf(obj["type"]) = TagOf(ret.bytes[1])
       /\ ret.n - ret.offset = 1 + StructSize(CodecOfTag(TagOf(ret.bytes[1])))
       /\ RepacksTo(pack(cls, obj), ret.bytes)

\* unpack_from at offset 1 read the tag 1 and then an Int16
C6_Witness ==
  /\ TaggedCase /\ ret.op = "unpack_from" /\ ret.offset = 1
  /\ ret.bytes[1] = 1 /\ obj["data"].items[1].tp = "Int16" /\ ret.n = 4

\* the fields of c declared with the literal count 0
ZeroCount(c) ==
  {n \in DOMAIN c.field_info :
     c.field_info[n].count.kind = "lit" /\ c.field_info[n].count.n = 0}

IsCounted(c, n) == n \notin ZeroCount(c)

\* the class c without its zero-count fields
WithoutZeroCount(c) ==
  [c EXCEPT !.fields = SelectSeq(c.fields, LAMBDA n : IsCounted(c, n))]

\* the same outcome and the same bytes
SameBytes(p, q) == p.st = q.st /\ p.bytes = q.bytes

\* the same outcome and the same size
SameSize(p, q) == p.st = q.st /\ p.n = q.n

\* an unpack_from of a class with a zero-count field returned
ZeroCountUnpacked ==
  ZeroCount(cls) # {} /\ ret.op \in {"unpack", "unpack_from"} /\ ret.st = "ok"

\* C7: zero-count boundary.  For a field of literal count 0 every set fails
\* and nothing is ever stored under it, get fails, size, pack and pack_into
\* give what they give for the class without the field, and unpack_from
\* stores nothing for it and advances only by the other fields' bytes.
C7_ZeroCountBoundary ==
  /\ ZeroCount(cls) \cap DOMAIN obj = {}
  /\ (ret.op \in {"set", "get"} /\ ret.fname \in ZeroCount(cls))
       => ret.st = "ValueError"
  /\ ZeroCount(cls) # {}
       => /\ SameBytes(pack(cls, obj), pack(WithoutZeroCount(cls), obj))
          /\ SameSize(size(cls, obj), size(WithoutZeroCount(cls), obj))
  /\ (ZeroCount(cls) # {} /\ ret.op = "pack_into")
       => ret.bytes = pack_into(WithoutZeroCount(cls), obj,
                                Target(Len(ret.bytes)), ret.offset).buf
  /\ ZeroCountUnpacked
       => /\ ret.n - ret.offset = size(WithoutZeroCount(cls), obj).n
          /\ RepacksTo(pack(WithoutZeroCount(cls), obj), ret.bytes)

\* unpack_from at offset 1 of head, the zero-count field and tail: two bytes
\* consumed, head and tail stored
C7_Witness ==
  /\ ZeroCountUnpacked /\ ret.op = "unpack_from" /\ ret.offset = 1
  /\ ret.n = 3 /\ DOMAIN obj = {"head", "tail"}

\* fewer than n bytes remain in a buffer of len bytes at offset
TooShort(s, len, offset) ==
  s.st = "ok" /\ (IF offset >= len THEN 0 ELSE len - offset) < s.n

\* C8: pack_into fails (InsufficientSpace, a ValueError) whenever fewer than
\* size() bytes remain in the buffer at offset, and no byte of the buffer has
\* been written then.
C8_InsufficientSpace ==
  (ret.op = "pack_into" /\ TooShort(size(cls, obj), Len(ret.bytes), ret.offset))
    => (ret.st = "ValueError" /\ ret.bytes = Target(Len(ret.bytes)))

\* a buffer as long as the composite's size, but entered at offset 1
C8_Witness ==
  /\ ret.op = "pack_into" /\ ret.st = "ValueError" /\ ret.offset = 1
  /\ size(cls, obj).st = "ok" /\ size(cls, obj).n = Len(ret.bytes)
  /\ Len(ret.bytes) >= 2

\* the fields of c of literal count 1 that o has no stored value for
Unassigned(c, o) ==
  {n \in DOMAIN c.field_info :
     /\ c.field_info[n].count.kind = "lit" /\ c.field_info[n].count.n = 1
     /\ n \notin DOMAIN o}

\* the class c reduced to its field n: what pack does for that field alone
Only(c, n) == [c EXCEPT !.fields = <<n>>]

\* the default d of a field: the literal, or for count_of(name) the length of
\* the list stored under name (an unassigned dynamic-count field reads as [])
DefaultOf(o, default) ==
  IF default.kind = "lit" THEN default.n
  ELSE IF default.name \in DOMAIN o THEN Len(o[default.name].items) ELSE 0

\* get returns d
Gets(g, d) == g.st = "ok" /\ g.val = Scalar(Raw(d))

\* C9: a literal-count-1 field never assigned.  With a default d (a literal,
\* or a resolver evaluated against the composite) get returns d and pack emits
\* for the field the encoding of d; without a default get and pack both fail
\* with a KeyError (MissingField).
C9_UnassignedScalar ==
  \A n \in Unassigned(cls, obj) :
    IF cls.field_info[n].default.kind = "NoDefault"
    THEN /\ getitem(cls, obj, n).st = "KeyError"
         /\ pack(Only(cls, n), obj).st = "KeyError"
         /\ pack(cls, obj).st # "ok"
    ELSE /\ Gets(getitem(cls, obj, n), DefaultOf(obj, cls.field_info[n].default))
         /\ RepacksTo(pack(Only(cls, n), obj),
                      PrimPack(cls.field_info[n].tp,
                               DefaultOf(obj, cls.field_info[n].default)).bytes)

\* field1 assigned, field2 left to its default 9: pack succeeded and emitted
\* 9 after field1
C9_Witness ==
  /\ ret.op = "pack" /\ ret.st = "ok" /\ cls.name = "A"
  /\ Unassigned(cls, obj) = {"field2"}
  /\ Len(ret.bytes) = 2 /\ ret.bytes[2] = 9

\* a set of a declared field returned or raised
SetCase == ret.op = "set" /\ ret.fname \in DOMAIN cls.field_info

\* the length len is admissible for a list assigned to a field of this count
Admissible(count, default, len) ==
  callable(count) \/ (len <= count.n /\ (len = count.n \/ default.kind # "NoDefault"))

\* what the shape rule says of the set recorded in r, for a field of this
\* count and default
ShapeRule(r, count, default) ==
  IF callable(count) \/ count.n > 1
  THEN /\ ~r.isList => r.st = "TypeError"
       /\ (r.isList /\ Admissible(count, default, r.len)) => r.st = "ok"
  ELSE count.n = 1
         => /\ r.isList => r.st = "TypeError"
            /\ ~r.isList => r.st = "ok"

\* the element codec of the field n resolves to a codec: its type is fixed, or
\* its type resolver (which reads the tag field, that a set of n leaves alone)
\* returns one
CodecResolves(c, o, n) ==
  /\ resolve_type(c, o, c.field_info[n].tp).st = "ok"
  /\ resolve_type(c, o, c.field_info[n].tp).tp # "None"

ListSetCase(c, r) ==
  /\ r.op = "set" /\ r.fname \in DOMAIN c.field_info /\ r.isList
  /\ c.field_info[r.fname].count.kind = "lit"
  /\ c.field_info[r.fname].count.n > 1

\* what the length rule says of the set of a list of r.len values to a field
\* of literal count > 1 and this default
LengthRule(r, count, default) ==
  /\ r.len > count.n => r.st = "ValueError"
  /\ (r.len < count.n /\ default.kind = "NoDefault") => r.st = "ValueError"
  /\ (r.len < count.n /\ default.kind # "NoDefault") => r.st = "ok"
  /\ r.len = count.n => r.st = "ok"

\* a call of set that ends in r keeps the length rule, and leaves the stored
\* values o as they were (p) when it raises
SetKeepsRule(c, p, o, r) ==
  /\ ListSetCase(c, r)
       => LengthRule(r, c.field_info[r.fname].count, c.field_info[r.fname].default)
  /\ (r.op = "set" /\ r.st # "ok") => o = p

\* C11: length checking on set for a literal count n > 1.  A list longer than
\* n is rejected, a shorter one is rejected without a default and accepted
\* with one, a list of n values is accepted; after a rejected set (of an
\* undeclared field too) the stored values are what they were before.
C11_LengthOnSet == [][SetKeepsRule(cls, obj, obj', ret')]_vars

\* a list of 3 values was refused by field3 (count 2), with field4 stored
C11_Witness ==
  /\ ListSetCase(cls, ret) /\ cls.name = "L" /\ ret.fname = "field3"
  /\ ret.len = 3 /\ ret.st = "ValueError"
  /\ DOMAIN obj = {"field4"}

\* the fields of c of literal count > 1
ListFields(c) ==
  {n \in DOMAIN c.field_info :
     c.field_info[n].count.kind = "lit" /\ c.field_info[n].count.n > 1}

\* the stored list of the field n, [] when it was never assigned
StoredList(o, n) == IF n \in DOMAIN o THEN o[n].items ELSE <<>>

\* the value a default gives for a slot of the composite o: the literal, or
\* what the resolver gives when evaluated against o
SlotDefault(c, o, default) ==
  IF default.kind = "lit" THEN Raw(default.n)
  ELSE call_default(c, o, default).val.items[1]

\* g is a list of n values: the stored ones, then the default for each
\* missing slot
Backfilled(c, o, g, have, n, default) ==
  /\ g.st = "ok" /\ g.val.isList /\ Len(g.val.items) = n
  /\ \A i \in 1..n :
       g.val.items[i] = IF i <= Len(have) THEN have[i]
                        ELSE SlotDefault(c, o, default)

\* what get of the list field f gives for the composite o
GetRule(c, o, f, g, count, default) ==
  Len(StoredList(o, f)) < count.n
    => IF default.kind = "NoDefault" THEN g.st = "ValueError"
       ELSE /\ Backfilled(c, o, g, StoredList(o, f), count.n, default)
            /\ callable(default)
                 => default_calls(c, o, f, count, default)
                      = count.n - Len(StoredList(o, f))

\* a get of the list field r.fname returned: repeating it on the composite q
\* it left evaluates the resolver as often as it did on p, and returns r.val
RepeatRule(c, p, q, r) ==
  (r.op = "get" /\ r.st = "ok" /\ r.fname \in ListFields(c))
    => /\ default_calls(c, q, r.fname, c.field_info[r.fname].count,
                        c.field_info[r.fname].default)
            = default_calls(c, p, r.fname, c.field_info[r.fname].count,
                            c.field_info[r.fname].default)
       /\ getitem(c, q, r.fname).val = r.val

\* C12: get of a field of literal count n > 1 holding k < n values returns the
\* k stored values followed by n - k defaults, a resolver default evaluated
\* once per missing slot against the composite; it fails when there is no
\* default; and a repeated get evaluates the resolver n - k times again and
\* returns the n values again.
C12_GetBackfill ==
  /\ [](\A f \in ListFields(cls) :
          GetRule(cls, obj, f, getitem(cls, obj, f), cls.field_info[f].count,
                  cls.field_info[f].default))
  /\ [][RepeatRule(cls, obj, obj', ret')]_vars

\* a call that ended in r and only reads left the stored values q as they
\* were (p)
ReadOnly(p, q, r) == r.op \in {"get", "size", "pack", "pack_into"} => q = p

\* C13: get, size, pack and pack_into are read-only: the stored field values,
\* the contents of every stored list included, are the same after the call as
\* before it, also for a field of literal count > 1 stored short and
\* backfilled from its default.
C13_ReadOnly == [][ReadOnly(obj, obj', ret')]_vars

\* ------------------------------------------------------------------- C14
\* every nested composite held in a field of o has the parent reference form
HeldParents(o, form) ==
  \A f \in DOMAIN o : \A i \in 1..Len(o[f].items) :
    o[f].items[i].tp \in CompositeTypes => o[f].items[i].parent = form

\* C14: parent-link invariant. In every state reached by set and unpack_from
\* each nested composite held in a field of the composite has a parent
\* reference to it (there is one enclosing composite, obj, so the reference
\* can designate no other) that is a weak reference, of the same form whether
\* the child was attached by set or made by unpack_from; the top-level
\* composite of unpack_from, made with parent=None, has parent None.
C14_ParentLink ==
  /\ HeldParents(obj, "weakref")
  /\ parent_attr("None") = "None"

\* ------------------------------------------------------------------- C15
\* the fields of c with the literal count 1 that hold a value in o
StoredScalars(c, o) ==
  {f \in DOMAIN o : ~callable(c.field_info[f].count) /\ c.field_info[f].count.n = 1}

\* C15: get of a field with the literal count 1 that holds a stored value
\* returns that value; the default is consulted only when the value is
\* absent, so a default resolver that fails (it reads a later field that is
\* not stored) does not make the get of the stored field fail.
C15_StoredScalarGet ==
  \A f \in StoredScalars(cls, obj) :
    getitem(cls, obj, f).st = "ok" /\ getitem(cls, obj, f).val = obj[f]

\* ------------------------------------------------------------------- C16
\* the composite as it is when field k is reached: the values of the fields
\* declared before k, nothing for k or a later field
Partial(c, o, k) ==
  [f \in {c.fields[j] : j \in 1..(k - 1)} \cap DOMAIN o |-> o[f]]

\* the count resolver of field k, invoked against the partial composite
CountAt(c, o, k) ==
  IF callable(c.field_info[c.fields[k]].count)
  THEN call_count(c, Partial(c, o, k), c.field_info[c.fields[k]].count)
  ELSE Ok(Scalar(Raw(c.field_info[c.fields[k]].count.n)), o)

\* the type resolver of field k, invoked against the partial composite
TypeAt(c, o, k) == resolve_type(c, Partial(c, o, k), c.field_info[c.fields[k]].tp)

\* the values o holds for the field f, none when it holds nothing
Held(o, f) == IF f \in DOMAIN o THEN o[f].items ELSE <<>>

\* the bytes the values of field k take
FieldWidth(c, o, k) ==
  IF Held(o, c.fields[k]) = <<>> THEN 0
  ELSE Len(Held(o, c.fields[k])) * StructSize(TypeAt(c, o, k).tp)

RECURSIVE StartOf(_, _, _)
\* where the bytes of field k start: after those of the fields before it
StartOf(c, o, k) ==
  IF k = 1 THEN 0 ELSE StartOf(c, o, k - 1) + FieldWidth(c, o, k - 1)

\* the form in which n values of the field f are stored: a list for a dynamic
\* count, whatever n; for a literal count the value itself when it is one
StoredForm(o, f, count, n) ==
  IF callable(count) THEN f \in DOMAIN o /\ o[f].isList
  ELSE IF n = 1 THEN f \in DOMAIN o /\ ~o[f].isList
  ELSE IF n > 1 THEN f \in DOMAIN o /\ o[f].isList
  ELSE f \notin DOMAIN o

\* the values of field k are those decoded with the codec tp, n of them, from
\* the position start of the consumed bytes
DecodedFrom(o, f, tp, n, bytes, start) ==
  /\ Len(Held(o, f)) = n
  /\ \A i \in 1..n :
       /\ PrimUnpackFrom(tp, bytes, start + (i - 1) * StructSize(tp)).st = "ok"
       /\ Held(o, f)[i]
            = Inst(tp, PrimUnpackFrom(tp, bytes, start + (i - 1) * StructSize(tp)).v)

\* field k of the unpacked o, given what its resolvers answer on the partial
\* composite
FieldRule(c, o, bytes, k, rc, t) ==
  /\ rc.st = "ok" /\ ~rc.val.isList /\ t.st = "ok"
  /\ StoredForm(o, c.fields[k], c.field_info[c.fields[k]].count,
                RangeLen(IntOf(rc.val)))
  /\ DecodedFrom(o, c.fields[k], t.tp, RangeLen(IntOf(rc.val)), bytes,
                 StartOf(c, o, k))

\* the unpacked o is made field by field in declaration order
OrderRule(c, o, bytes) ==
  \A k \in 1..Len(c.fields) :
    FieldRule(c, o, bytes, k, CountAt(c, o, k), TypeAt(c, o, k))

\* C16: ordering in unpack_from. The fields are processed in declaration
\* order: the values of the k-th field are decoded where those of the fields
\* before it end, their number and codec are what the count resolver and the
\* type resolver answer on the composite holding exactly the values of the
\* fields declared before k; a field with a dynamic count is stored as a list
\* (also with 0 or 1 elements), one with the literal count 1 as a scalar.
C16_UnpackOrdering ==
  ret.op \in {"unpack", "unpack_from"} /\ ret.st = "ok"
    => OrderRule(cls, obj, ret.bytes)

\* unpack_from of Q: the count of numbers was resolved while tail held no
\* value (its default 1 counted), numbers is a list of one element, and the
\* tail decoded after it is 0
C16_Witness ==
  /\ cls.name = "Q" /\ ret.op = "unpack_from" /\ ret.st = "ok" /\ ret.offset = 1
  /\ obj["numbers"].isList /\ Len(obj["numbers"].items) = 1
  /\ ~obj["tail"].isList /\ IntOf(obj["tail"]) = 0

\* ------------------------------------------------------------------- C17
\* __format__ = '4B' of ByteArray: four elements of one byte each
SequenceFormat(tp) == [arity |-> 4, width |-> 1]

\* the fields of c whose element codec is a sequence type
SequenceFields(c) ==
  {f \in DOMAIN c.field_info : c.field_info[f].tp \in SequenceTypes}

\* the bytes the declared fields of c take, all of them sequences with a
\* literal count
DeclaredBytes(c) ==
  IF SequenceFields(c) = {} THEN 0
  ELSE c.field_info[c.fields[1]].count.n
         * SequenceFormat(c.field_info[c.fields[1]].tp).arity
         * SequenceFormat(c.field_info[c.fields[1]].tp).width

\* C17: a fixed tuple codec is usable as the element codec of a composite
\* field: unpack_from of a composite whose field has a sequence codec, on a
\* buffer that holds the bytes, succeeds and consumes arity x width bytes for
\* each repetition.
C17_SequenceElement ==
  SequenceFields(cls) # {} =>
    \A buf \in InputBuffers, offset \in 0..MaxOffset :
      Len(buf) - offset >= DeclaredBytes(cls) =>
        /\ unpack_from(cls, buf, offset).st = "ok"
        /\ unpack_from(cls, buf, offset).offset = offset + DeclaredBytes(cls)

\* ------------------------------------------------------------------- C18
\* C18: consumed-bytes invariant. Whenever unpack_from(buffer, offset)
\* succeeds, the size of the composite it returns is the number of bytes it
\* advanced past offset, whatever bytes follow in the buffer.
C18_ConsumedBytes ==
  ret.op \in {"unpack", "unpack_from"} /\ ret.st = "ok"
    => /\ size(cls, obj).st = "ok"
       /\ size(cls, obj).n = ret.n - ret.offset

\* as test_variable_length_field: unpack_from at offset 1 of a buffer of four
\* bytes that takes len and one number, two bytes, and leaves one behind
C18_Witness ==
  /\ cls.name = "V" /\ ret.op = "unpack_from" /\ ret.st = "ok"
  /\ ret.offset = 1 /\ ret.len = 4 /\ ret.n = 3
  /\ Len(obj["numbers"].items) = 1
  /\ size(cls, obj).n = 2

====
